---------------------------- MODULE Spec2Model ----------------------------
(***************************************************************************)
(* Model of the OAuth2 / PKCE helper of cms-bb2-node-sdk:                  *)
(*   src/src/auth.ts                      PKCE data, authorize URL,        *)
(*                                        callback validation, token       *)
(*                                        exchange and refresh             *)
(*   src/src/entities/AuthorizationToken.ts   the token value object       *)
(*                                                                         *)
(* JavaScript values are represented as follows.                           *)
(*   string            a TLA+ string                                       *)
(*   Buffer            a sequence of bytes (0..255)                        *)
(*   optional value    Undefined (<<>>) or Some(v) (<<v>>)                 *)
(*   object            a record                                            *)
(*   thrown Error      its message, taken from the Errors enumeration      *)
(***************************************************************************)
EXTENDS Integers, Sequences, FiniteSets, TLC

VARIABLES authData, url, call, heap, now, drawn, probe

vars == <<authData, url, call, heap, now, drawn, probe>>

(***************************************************************************)
(* Bounds of the model.                                                    *)
(***************************************************************************)
\* number of caller tasks (authorization attempts) running concurrently
NAttempts == 2
\* the clock runs from 0 to MaxNow milliseconds
MaxNow == 1

Attempts == 1..NAttempts

(***************************************************************************)
(* Optional values and JavaScript truthiness.                              *)
(***************************************************************************)
Undefined == <<>>
Some(v) == <<v>>
\* !x for an optional string: undefined and "" are falsy
FalsyStr(o) == o = Undefined \/ o[1] = ""
\* !x for an optional number: undefined and 0 are falsy
FalsyNum(o) == o = Undefined \/ o[1] = 0
\* String(x), as URLSearchParams applies it to every value
ToUSVString(o) == IF o = Undefined THEN "undefined" ELSE o[1]

(***************************************************************************)
(* Random primitives.                                                      *)
(***************************************************************************)
B64 == "ABCDEFGHIJKLMNOPQRSTUVWXYZabcdefghijklmnopqrstuvwxyz0123456789+/"
B64Char(k) == SubSeq(B64, k + 1, k + 1)

\* Buffer.toString("base64"): three bytes give four characters; a trailing
\* group of one or two bytes is padded with "=".
RECURSIVE toBase64(_)
toBase64(buffer) ==
  IF Len(buffer) = 0 THEN ""
  ELSE IF Len(buffer) = 1 THEN
    B64Char(buffer[1] \div 4) \o B64Char((buffer[1] % 4) * 16) \o "=="
  ELSE IF Len(buffer) = 2 THEN
    B64Char(buffer[1] \div 4)
      \o B64Char((buffer[1] % 4) * 16 + buffer[2] \div 16)
      \o B64Char((buffer[2] % 16) * 4) \o "="
  ELSE
    B64Char(buffer[1] \div 4)
      \o B64Char((buffer[1] % 4) * 16 + buffer[2] \div 16)
      \o B64Char((buffer[2] % 16) * 4 + buffer[3] \div 64)
      \o B64Char(buffer[3] % 64)
      \o toBase64(SubSeq(buffer, 4, Len(buffer)))

\* String.replace(/c/g, to) for a one-character pattern
RECURSIVE replaceAll(_, _, _)
replaceAll(str, c, to) ==
  IF str = "" THEN ""
  ELSE (IF Head(str) = c THEN to ELSE Head(str)) \o replaceAll(Tail(str), c, to)

base64URLEncode(buffer) ==
  replaceAll(replaceAll(replaceAll(toBase64(buffer), "+", "-"), "/", "_"), "=", "")

\* Position of a character in the base64url alphabet (its code in the model).
B64Url == "ABCDEFGHIJKLMNOPQRSTUVWXYZabcdefghijklmnopqrstuvwxyz0123456789-_"
CharCode(c) == CHOOSE k \in 0..63 : SubSeq(B64Url, k + 1, k + 1) = c

\* crypto.createHash("sha256").update(str).digest(): a deterministic digest of
\* the string.  The digest is narrowed to two bytes so that its inputs stay
\* enumerable; it keeps what the code relies on, a fixed-length Buffer that
\* is a function of the whole string.
RECURSIVE Mix(_, _)
Mix(str, h) ==
  IF str = "" THEN h
  ELSE Mix(Tail(str), (h * 33 + CharCode(Head(str)) + 1) % 65536)

sha256(str) == LET h == Mix(str, 5381) IN <<h \div 256, h % 256>>

\* crypto.randomBytes(32): the Buffers the entropy source may return.  Short
\* Buffers of every length class modulo three stand for the 32-byte ones.
Entropy == { <<255>>, <<251, 255>>, <<255, 251>>, <<0, 16, 131>> }


(***************************************************************************)
(* Collaborators: the facade, the header set and the error messages.       *)
(***************************************************************************)
\* The BlueButton facade, read only, with the values of the default sandbox
\* configuration.
bb == [ baseUrl      |-> "https://sandbox.bluebutton.cms.gov",
        version      |-> "2",
        clientId     |-> "foo",
        clientSecret |-> "bar",
        callbackUrl  |-> "https://www.fake.com/" ]

\* The fixed header set of every request; its content is not used here.
SDK_HEADERS == << <<"SDK_HEADERS", "SDK_HEADERS">> >>

Errors == [ CALLBACK_ACCESS_DENIED               |-> "CALLBACK_ACCESS_DENIED",
            CALLBACK_ACCESS_CODE_MISSING         |-> "CALLBACK_ACCESS_CODE_MISSING",
            CALLBACK_STATE_MISSING               |-> "CALLBACK_STATE_MISSING",
            CALLBACK_STATE_DOES_NOT_MATCH        |-> "CALLBACK_STATE_DOES_NOT_MATCH",
            AUTH_TOKEN_URL_RESPONSE_DATA_MISSING |-> "AUTH_TOKEN_URL_RESPONSE_DATA_MISSING" ]

\* What the transport raises, and what reading a property of null raises.
TransportError == "TRANSPORT_ERROR"
TypeError == "TypeError"

(***************************************************************************)
(* PKCE generator.                                                         *)
(***************************************************************************)
generatePkceData_Plain(rnd) ==
  LET verifier == base64URLEncode(rnd)
  IN  [ codeChallenge |-> verifier, verifier |-> verifier ]

generatePkceData(rnd) ==
  LET verifier == base64URLEncode(rnd)
  IN  [ codeChallenge |-> base64URLEncode(sha256(verifier)),
        verifier      |-> verifier ]

generateRandomState(rnd) == base64URLEncode(rnd)

\* rndV and rndS are the two results of crypto.randomBytes, in call order.
generateAuthData(rndV, rndS) ==
  LET PkceData == generatePkceData(rndV)
  IN  [ codeChallenge |-> PkceData.codeChallenge,
        verifier      |-> PkceData.verifier,
        state         |-> generateRandomState(rndS) ]

(***************************************************************************)
(* Authorize URL, token URL and token post data.                           *)
(***************************************************************************)
getAuthorizationUrl(b) == b.baseUrl \o "/v" \o b.version \o "/o/authorize"

generateAuthorizeUrl_Verifier(b, AuthData) ==
  LET pkceParams == "code_challenge_method=S256&code_challenge=" \o AuthData.verifier
  IN  getAuthorizationUrl(b) \o "?client_id=" \o b.clientId
        \o "&redirect_uri=" \o b.callbackUrl
        \o "&state=" \o AuthData.state \o "&response_type=code&" \o pkceParams

generateAuthorizeUrl(b, AuthData) ==
  LET pkceParams == "code_challenge_method=S256&code_challenge=" \o AuthData.codeChallenge
  IN  getAuthorizationUrl(b) \o "?client_id=" \o b.clientId
        \o "&redirect_uri=" \o b.callbackUrl
        \o "&state=" \o AuthData.state \o "&response_type=code&" \o pkceParams

\* The object literal: every key is an own property, code included, whose
\* value is undefined when no callback code was passed.
generateTokenPostData(b, aData, callbackCode) ==
  [ client_id      |-> Some(b.clientId),
    client_secret  |-> Some(b.clientSecret),
    code           |-> callbackCode,
    grant_type     |-> Some("authorization_code"),
    redirect_uri   |-> Some(b.callbackUrl),
    code_verifier  |-> Some(aData.verifier),
    code_challenge |-> Some(aData.codeChallenge) ]

\* Own keys of the object literal, in insertion order.
TokenPostDataKeys ==
  << "client_id", "client_secret", "code", "grant_type", "redirect_uri",
     "code_verifier", "code_challenge" >>

\* new URLSearchParams(record): one name/value pair per own key, the value
\* converted with String().
URLSearchParams(postData) ==
  [ k \in 1..Len(TokenPostDataKeys) |->
      << TokenPostDataKeys[k], ToUSVString(postData[TokenPostDataKeys[k]]) >> ]

getAccessTokenUrl(b) == b.baseUrl \o "/v" \o b.version \o "/o/token/"

(***************************************************************************)
(* Callback validator: "ok", or the message of the Error it throws.        *)
(***************************************************************************)
\* Variant: the missing-code check ahead of the access_denied check.
validateCallback_CodeFirst(aData, callbackCode, callbackState, callbackError) ==
  IF FalsyStr(callbackCode) THEN Errors.CALLBACK_ACCESS_CODE_MISSING
  ELSE IF callbackError = Some("access_denied") THEN Errors.CALLBACK_ACCESS_DENIED
  ELSE IF FalsyStr(callbackState) THEN Errors.CALLBACK_STATE_MISSING
  ELSE IF callbackState[1] # aData.state THEN Errors.CALLBACK_STATE_DOES_NOT_MATCH
  ELSE "ok"

\* Variant: the expected state kept in one place shared by all attempts.
validateCallback_Shared(aData, callbackCode, callbackState, callbackError) ==
  LET expected == IF authData[1] # Undefined THEN authData[1][1].state ELSE aData.state
  IN  IF callbackError = Some("access_denied") THEN Errors.CALLBACK_ACCESS_DENIED
      ELSE IF FalsyStr(callbackCode) THEN Errors.CALLBACK_ACCESS_CODE_MISSING
      ELSE IF FalsyStr(callbackState) THEN Errors.CALLBACK_STATE_MISSING
      ELSE IF callbackState[1] # expected THEN Errors.CALLBACK_STATE_DOES_NOT_MATCH
      ELSE "ok"

validateCallbackRequestQueryParams(aData, callbackCode, callbackState, callbackError) ==
  IF callbackError = Some("access_denied") THEN Errors.CALLBACK_ACCESS_DENIED
  ELSE IF FalsyStr(callbackCode) THEN Errors.CALLBACK_ACCESS_CODE_MISSING
  ELSE IF FalsyStr(callbackState) THEN Errors.CALLBACK_STATE_MISSING
  ELSE IF callbackState[1] # aData.state THEN Errors.CALLBACK_STATE_DOES_NOT_MATCH
  ELSE "ok"

(***************************************************************************)
(* AuthorizationToken.                                                     *)
(***************************************************************************)
\* resp.data as the transport delivers it: null or undefined, the empty
\* string, or a decoded JSON object.
NullData == [ kind |-> "null" ]
EmptyData == [ kind |-> "empty" ]
ObjectData(fields) == [ kind |-> "object", fields |-> fields ]

\* if (data): null, undefined and "" are falsy, every object is truthy
Truthy(data) == data.kind = "object"

\* data.f for data that is not null: undefined on "" and on a missing key
Prop(data, f) ==
  IF data.kind = "object" /\ f \in DOMAIN data.fields
    THEN Some(data.fields[f]) ELSE Undefined

\* moment().add(ms).valueOf() at instant t; ms is undefined when the product
\* is NaN, and moment then adds nothing.
MomentAdd(t, ms) == IF ms = Undefined THEN t ELSE t + ms[1]

Times1000(o) == IF o = Undefined THEN Undefined ELSE Some(o[1] * 1000)

\* new AuthorizationToken(authToken) at instant t, authToken not null
AuthorizationToken(authToken, t) ==
  LET expiresIn == Prop(authToken, "expires_in")
      expires_at == Prop(authToken, "expires_at")
  IN  [ accessToken  |-> Prop(authToken, "access_token"),
        expiresIn    |-> expiresIn,
        expiresAt    |-> IF ~FalsyNum(expires_at) THEN expires_at[1]
                         ELSE MomentAdd(t, Times1000(expiresIn)),
        patient      |-> Prop(authToken, "patient"),
        refreshToken |-> Prop(authToken, "refresh_token"),
        scope        |-> Prop(authToken, "scope"),
        tokenType    |-> Prop(authToken, "token_type") ]


(***************************************************************************)
(* Inputs of the environment: callback parameters and token responses.     *)
(***************************************************************************)
CallbackCodes == { Undefined, Some(""), Some("abc") }
CallbackStates(aData) == { Undefined, Some(""), Some(aData.state), Some("WRONG") }
CallbackErrors == { Undefined, Some("access_denied"), Some("server_error") }

Bodies ==
  { [ access_token |-> "a1", expires_in |-> 60, token_type |-> "Bearer",
      scope |-> <<"profile">>, refresh_token |-> "r1", patient |-> "p1" ],
    [ access_token |-> "a2", expires_in |-> 3600, token_type |-> "Bearer",
      scope |-> <<"profile">>, refresh_token |-> "r2", patient |-> "p2",
      expires_at |-> 5000 ],
    [ access_token |-> "a3", expires_in |-> 60, token_type |-> "Bearer",
      scope |-> <<"profile">>, refresh_token |-> "r3", patient |-> "p1",
      expires_at |-> 0 ] }

ResponseData == { NullData, EmptyData } \cup { ObjectData(b) : b \in Bodies }

Cb(code, state, error) == [ code |-> code, state |-> state, error |-> error ]

\* Every callback an attempt may receive.
Callbacks(aData) ==
  { Cb(code, state, error) : code \in CallbackCodes,
      state \in CallbackStates(aData), error \in CallbackErrors }

\* The callbacks and responses used when several attempts are interleaved:
\* the valid callback and one for each way of failing; the responses
\* without data and one with a body.
ConcurrentCallbacks(aData) ==
  { Cb(Some("abc"), Some(aData.state), Undefined),
    Cb(Undefined, Undefined, Some("access_denied")),
    Cb(Undefined, Some(aData.state), Undefined),
    Cb(Some("abc"), Undefined, Undefined),
    Cb(Some("abc"), Some("WRONG"), Undefined) }

ConcurrentResponseData ==
  { NullData, EmptyData,
    ObjectData([ access_token |-> "a1", expires_in |-> 60, token_type |-> "Bearer",
                 scope |-> <<"profile">>, refresh_token |-> "r1", patient |-> "p1" ]) }

(***************************************************************************)
(* The two protocol operations, cut at their single await.                 *)
(***************************************************************************)
NoOutcome == [ kind |-> "none", error |-> "", ref |-> 0 ]
Thrown(msg) == [ kind |-> "error", error |-> msg, ref |-> 0 ]
Returned(ref) == [ kind |-> "token", error |-> "", ref |-> ref ]

\* axios.post(url, data, config)
Request(u, data, auth, params) ==
  [ url |-> u, data |-> data, headers |-> SDK_HEADERS, auth |-> auth,
    params |-> params ]

\* Variant: the request handed to the transport before the validator runs.
getAuthorizationToken_PostFirst(b, aData, callbackRequestCode, callbackRequestState, callbackRequestError) ==
  LET v == validateCallbackRequestQueryParams(aData, callbackRequestCode,
             callbackRequestState, callbackRequestError)
      postData == generateTokenPostData(b, aData, callbackRequestCode)
      body == URLSearchParams(postData)
      req == Request(getAccessTokenUrl(b), body, Undefined, <<>>)
  IN  IF v # "ok"
        THEN [ pc |-> "done", reqs |-> <<req>>, outcome |-> Thrown(v) ]
        ELSE [ pc |-> "awaiting", reqs |-> <<req>>, outcome |-> NoOutcome ]

\* getAuthorizationToken up to its await: the validator, the post data, the
\* request.  reqs are the requests handed to the transport.
getAuthorizationToken_Start(b, aData, callbackRequestCode, callbackRequestState, callbackRequestError) ==
  LET v == validateCallbackRequestQueryParams(aData, callbackRequestCode,
             callbackRequestState, callbackRequestError)
      postData == generateTokenPostData(b, aData, callbackRequestCode)
      body == URLSearchParams(postData)
  IN  IF v # "ok"
        THEN [ pc |-> "done", reqs |-> <<>>, outcome |-> Thrown(v) ]
        ELSE [ pc |-> "awaiting",
               reqs |-> << Request(getAccessTokenUrl(b), body, Undefined, <<>>) >>,
               outcome |-> NoOutcome ]

\* Variant: no check of resp.data before the constructor, as in refresh.
getAuthorizationToken_NoCheck(h, c, resp, t) ==
  IF ~resp.ok
    THEN [ pc |-> "done", reqs |-> c.reqs, outcome |-> Thrown(TransportError), heap |-> h ]
  ELSE IF resp.data = NullData
    THEN [ pc |-> "done", reqs |-> c.reqs, outcome |-> Thrown(TypeError), heap |-> h ]
    ELSE [ pc |-> "done", reqs |-> c.reqs, outcome |-> Returned(Len(h) + 1),
           heap |-> Append(h, AuthorizationToken(resp.data, t)) ]

\* Variant: the request sent again after a transport failure.
getAuthorizationToken_Retry(h, c, resp, t) ==
  IF ~resp.ok
    THEN IF Len(c.reqs) < 2
           THEN [ pc |-> "awaiting", reqs |-> Append(c.reqs, c.reqs[1]),
                  outcome |-> NoOutcome, heap |-> h ]
           ELSE [ pc |-> "done", reqs |-> c.reqs, outcome |-> Thrown(TransportError),
                  heap |-> h ]
  ELSE IF Truthy(resp.data)
    THEN [ pc |-> "done", reqs |-> c.reqs, outcome |-> Returned(Len(h) + 1),
           heap |-> Append(h, AuthorizationToken(resp.data, t)) ]
    ELSE [ pc |-> "done", reqs |-> c.reqs,
           outcome |-> Thrown(Errors.AUTH_TOKEN_URL_RESPONSE_DATA_MISSING), heap |-> h ]

\* getAuthorizationToken after its await, at instant t: resp is what the
\* transport settled with, h the tokens constructed so far.
getAuthorizationToken_Resume(h, c, resp, t) ==
  IF ~resp.ok
    THEN [ pc |-> "done", reqs |-> c.reqs, outcome |-> Thrown(TransportError), heap |-> h ]
  ELSE IF Truthy(resp.data)
    THEN [ pc |-> "done", reqs |-> c.reqs, outcome |-> Returned(Len(h) + 1),
           heap |-> Append(h, AuthorizationToken(resp.data, t)) ]
    ELSE [ pc |-> "done", reqs |-> c.reqs,
           outcome |-> Thrown(Errors.AUTH_TOKEN_URL_RESPONSE_DATA_MISSING), heap |-> h ]

\* refreshAuthToken up to its await
refreshAuthToken_Start(authToken, b) ==
  LET tokenUrl == getAccessTokenUrl(b)
  IN  [ pc |-> "awaiting",
        reqs |-> << Request(tokenUrl, <<>>,
                      Some([ username |-> b.clientId, password |-> b.clientSecret ]),
                      << <<"grant_type", Some("refresh_token")>>,
                         <<"client_id", Some(b.clientId)>>,
                         <<"refresh_token", authToken.refreshToken>> >>) >>,
        outcome |-> NoOutcome ]

\* Variant: the refreshed fields written into the token that was passed in.
refreshAuthToken_InPlace(h, c, resp, t) ==
  IF ~resp.ok
    THEN [ pc |-> "done", reqs |-> c.reqs, outcome |-> Thrown(TransportError), heap |-> h ]
  ELSE IF resp.data = NullData
    THEN [ pc |-> "done", reqs |-> c.reqs, outcome |-> Thrown(TypeError), heap |-> h ]
    ELSE [ pc |-> "done", reqs |-> c.reqs, outcome |-> Returned(c.input),
           heap |-> [ h EXCEPT ![c.input] = AuthorizationToken(resp.data, t) ] ]

\* refreshAuthToken after its await: the constructor reads resp.data without
\* a check, so null data raises a TypeError.
refreshAuthToken_Resume(h, c, resp, t) ==
  IF ~resp.ok
    THEN [ pc |-> "done", reqs |-> c.reqs, outcome |-> Thrown(TransportError), heap |-> h ]
  ELSE IF resp.data = NullData
    THEN [ pc |-> "done", reqs |-> c.reqs, outcome |-> Thrown(TypeError), heap |-> h ]
    ELSE [ pc |-> "done", reqs |-> c.reqs, outcome |-> Returned(Len(h) + 1),
           heap |-> Append(h, AuthorizationToken(resp.data, t)) ]

(***************************************************************************)
(* State.                                                                  *)
(*   authData[i]  the AuthData of attempt i, once generated                *)
(*   drawn[i]     the two Buffers the entropy source returned for it       *)
(*   url[i]       the authorize URL built for attempt i                    *)
(*   call[i]      the protocol operation attempt i is running              *)
(*   heap         the AuthorizationToken instances, by reference           *)
(*   now          the clock                                                *)
(*   probe        the last direct call of a pure function and its result   *)
(***************************************************************************)
IdleCall ==
  [ op |-> "none", pc |-> "idle", cb |-> Undefined, input |-> 0,
    snap |-> Undefined, reqs |-> <<>>, resp |-> Undefined,
    outcome |-> NoOutcome, at |-> 0 ]

NoProbe == [ fn |-> "none" ]

Init ==
  /\ authData = [ i \in Attempts |-> Undefined ]
  /\ drawn = [ i \in Attempts |-> <<>> ]
  /\ url = [ i \in Attempts |-> Undefined ]
  /\ call = [ i \in Attempts |-> IdleCall ]
  /\ heap = <<>>
  /\ now = 0
  /\ probe = NoProbe

Used == UNION { { drawn[i][k] : k \in 1..Len(drawn[i]) } : i \in Attempts }

\* The caller asks for the AuthData of attempt i.  The entropy source does
\* not repeat a Buffer it has returned.
GenerateAuthData(i) ==
  /\ authData[i] = Undefined
  /\ \E rndV \in Entropy \ Used : \E rndS \in Entropy \ (Used \cup {rndV}) :
       /\ authData' = [ authData EXCEPT ![i] = Some(generateAuthData(rndV, rndS)) ]
       /\ drawn' = [ drawn EXCEPT ![i] = <<rndV, rndS>> ]
  /\ UNCHANGED <<url, call, heap, now, probe>>

\* The caller builds the URL the browser is sent to.
GenerateAuthorizeUrl(i) ==
  /\ authData[i] # Undefined
  /\ url[i] = Undefined
  /\ url' = [ url EXCEPT ![i] = Some(generateAuthorizeUrl(bb, authData[i][1])) ]
  /\ UNCHANGED <<authData, drawn, call, heap, now, probe>>

\* One of the callbacks cbs arrives and the caller calls
\* getAuthorizationToken, which runs to its await or to a throw.
GetAuthorizationToken(i, cbs) ==
  /\ url[i] # Undefined
  /\ call[i].pc = "idle"
  /\ \E cb \in cbs :
       LET r == getAuthorizationToken_Start(bb, authData[i][1], cb.code, cb.state,
                  cb.error)
       IN  call' = [ call EXCEPT ![i] =
             [ IdleCall EXCEPT !.op = "exchange", !.pc = r.pc, !.cb = Some(cb),
                 !.reqs = r.reqs, !.outcome = r.outcome ] ]
  /\ UNCHANGED <<authData, drawn, url, heap, now, probe>>

\* The caller refreshes the token its exchange returned.
RefreshAuthToken(i) ==
  /\ call[i].op = "exchange"
  /\ call[i].pc = "done"
  /\ call[i].outcome.kind = "token"
  /\ LET ref == call[i].outcome.ref
         r == refreshAuthToken_Start(heap[ref], bb)
     IN  call' = [ call EXCEPT ![i] =
           [ IdleCall EXCEPT !.op = "refresh", !.pc = r.pc, !.input = ref,
               !.snap = Some(heap[ref]), !.reqs = r.reqs, !.outcome = r.outcome ] ]
  /\ UNCHANGED <<authData, drawn, url, heap, now, probe>>

\* The transport settles the request of attempt i with a response whose data
\* is one of datas.
TransportRespond(i, datas) ==
  /\ call[i].pc = "awaiting"
  /\ \E data \in datas :
       call' = [ call EXCEPT ![i].pc = "settled",
                             ![i].resp = Some([ ok |-> TRUE, data |-> data ]) ]
  /\ UNCHANGED <<authData, drawn, url, heap, now, probe>>

\* The transport settles the request of attempt i with a failure.
TransportFail(i) ==
  /\ call[i].pc = "awaiting"
  /\ call' = [ call EXCEPT ![i].pc = "settled",
                           ![i].resp = Some([ ok |-> FALSE, data |-> NullData ]) ]
  /\ UNCHANGED <<authData, drawn, url, heap, now, probe>>

\* The event loop resumes the operation of attempt i after its await, at an
\* instant t that is not before the last instant read.
Resume(i) ==
  /\ call[i].pc = "settled"
  /\ \E t \in now..MaxNow :
       LET c == call[i]
           r == IF c.op = "exchange"
                  THEN getAuthorizationToken_Resume(heap, c, c.resp[1], t)
                  ELSE refreshAuthToken_Resume(heap, c, c.resp[1], t)
       IN  /\ call' = [ call EXCEPT ![i].pc = r.pc, ![i].reqs = r.reqs,
                                    ![i].outcome = r.outcome, ![i].at = t ]
           /\ heap' = r.heap
           /\ now' = t
  /\ UNCHANGED <<authData, drawn, url, probe>>

\* One attempt on its own, with every callback and every response.
Next ==
  \/ GenerateAuthData(1)
  \/ GenerateAuthorizeUrl(1)
  \/ GetAuthorizationToken(1, Callbacks(authData[1][1]))
  \/ RefreshAuthToken(1)
  \/ TransportRespond(1, ResponseData)
  \/ TransportFail(1)
  \/ Resume(1)

Spec == Init /\ [][Next]_vars

\* All attempts, interleaved.
NextConcurrent ==
  \/ \E i \in Attempts : GenerateAuthData(i)
  \/ \E i \in Attempts : GenerateAuthorizeUrl(i)
  \/ \E i \in Attempts : GetAuthorizationToken(i, ConcurrentCallbacks(authData[i][1]))
  \/ \E i \in Attempts : RefreshAuthToken(i)
  \/ \E i \in Attempts : TransportRespond(i, ConcurrentResponseData)
  \/ \E i \in Attempts : TransportFail(i)
  \/ \E i \in Attempts : Resume(i)

SpecConcurrent == Init /\ [][NextConcurrent]_vars


(***************************************************************************)
(* Direct calls of the pure functions: the AuthData is drawn in the        *)
(* initial state, and each action applies one function to inputs of its    *)
(* whole domain and records the result in probe.                           *)
(***************************************************************************)
InitPure ==
  /\ \E rndV \in Entropy : \E rndS \in Entropy \ {rndV} :
       /\ authData = [ i \in Attempts |->
                         IF i = 1 THEN Some(generateAuthData(rndV, rndS)) ELSE Undefined ]
       /\ drawn = [ i \in Attempts |-> IF i = 1 THEN <<rndV, rndS>> ELSE <<>> ]
  /\ url = [ i \in Attempts |-> Undefined ]
  /\ call = [ i \in Attempts |-> IdleCall ]
  /\ heap = <<>>
  /\ now = 0
  /\ probe = NoProbe

ProbeValidate ==
  /\ \E code \in CallbackCodes, state \in CallbackStates(authData[1][1]),
        error \in CallbackErrors :
       probe' = [ fn |-> "validate", code |-> code, state |-> state, error |-> error,
                  result |-> validateCallbackRequestQueryParams(authData[1][1],
                               code, state, error) ]
  /\ UNCHANGED <<authData, drawn, url, call, heap, now>>

ProbePostData ==
  /\ \E code \in CallbackCodes :
       LET postData == generateTokenPostData(bb, authData[1][1], code)
       IN  probe' = [ fn |-> "postData", code |-> code, result |-> postData,
                      body |-> URLSearchParams(postData) ]
  /\ UNCHANGED <<authData, drawn, url, call, heap, now>>

NextPure == ProbeValidate \/ ProbePostData

SpecPure == InitPure /\ [][NextPure]_vars

(***************************************************************************)
(* Helpers of the properties.                                              *)
(***************************************************************************)
\* sub occurs in str
Contains(str, sub) ==
  \E k \in 1..(Len(str) - Len(sub) + 1) : SubSeq(str, k, k + Len(sub) - 1) = sub

EndsWith(str, sub) ==
  Len(sub) <= Len(str) /\ SubSeq(str, Len(str) - Len(sub) + 1, Len(str)) = sub

\* the name/value list has an entry of that name
HasKey(pairs, name) == \E k \in 1..Len(pairs) : pairs[k][1] = name
HasPair(pairs, name, value) == \E k \in 1..Len(pairs) : pairs[k] = <<name, value>>


(***************************************************************************)
(* C1.  validateCallback checks in a fixed order and the first failing     *)
(* check decides: error = "access_denied" gives CALLBACK_ACCESS_DENIED     *)
(* even when code and state are missing; otherwise an absent or empty code *)
(* gives CALLBACK_ACCESS_CODE_MISSING; otherwise an absent or empty state  *)
(* gives CALLBACK_STATE_MISSING; otherwise a state other than              *)
(* authData.state gives CALLBACK_STATE_DOES_NOT_MATCH; otherwise the call  *)
(* succeeds, and the AuthData it was given is what it was.                 *)
(***************************************************************************)
C1_Absent(o) == o = Undefined \/ o = Some("")

C1_Expected(aData, code, state, error) ==
  CASE error = Some("access_denied") -> "CALLBACK_ACCESS_DENIED"
    [] error # Some("access_denied") /\ C1_Absent(code) -> "CALLBACK_ACCESS_CODE_MISSING"
    [] error # Some("access_denied") /\ ~C1_Absent(code) /\ C1_Absent(state)
         -> "CALLBACK_STATE_MISSING"
    [] error # Some("access_denied") /\ ~C1_Absent(code) /\ ~C1_Absent(state)
         /\ state # Some(aData.state) -> "CALLBACK_STATE_DOES_NOT_MATCH"
    [] OTHER -> "ok"

C1_ValidationOrder ==
  probe.fn = "validate" =>
    /\ probe.result = C1_Expected(authData[1][1], probe.code, probe.state, probe.error)
    /\ authData[1][1] = generateAuthData(drawn[1][1], drawn[1][2])

C1_Witness ==
  /\ probe.fn = "validate"
  /\ probe.error = Some("access_denied")
  /\ probe.code = Undefined
  /\ probe.state = Undefined
  /\ probe.result = "CALLBACK_ACCESS_DENIED"

(***************************************************************************)
(* C8.  buildTokenPostData omits the code key when no code is given: the   *)
(* TokenPostData and the form body made from it have a code entry if and   *)
(* only if a code was supplied, and the six other keys are always there    *)
(* with the values of the facade and the AuthData.                         *)
(***************************************************************************)
\* The own keys of the post data that carry a value the serializer emits.
C8_OtherKeys(pairs, aData) ==
  /\ HasPair(pairs, "client_id", bb.clientId)
  /\ HasPair(pairs, "client_secret", bb.clientSecret)
  /\ HasPair(pairs, "grant_type", "authorization_code")
  /\ HasPair(pairs, "redirect_uri", bb.callbackUrl)
  /\ HasPair(pairs, "code_verifier", aData.verifier)
  /\ HasPair(pairs, "code_challenge", aData.codeChallenge)

C8_CodeKeyIffSupplied ==
  probe.fn = "postData" =>
    /\ HasKey(probe.body, "code") <=> probe.code # Undefined
    /\ probe.code # Undefined => HasPair(probe.body, "code", probe.code[1])
    /\ C8_OtherKeys(probe.body, authData[1][1])

\* What the code does hold to: the six other keys, and the code when given.
C8_OtherKeysAlways ==
  probe.fn = "postData" =>
    /\ probe.code # Undefined => HasPair(probe.body, "code", probe.code[1])
    /\ C8_OtherKeys(probe.body, authData[1][1])

C8_AbsentCodeSerialized ==
  /\ probe.fn = "postData"
  /\ probe.code = Undefined
  /\ HasPair(probe.body, "code", "undefined")


(***************************************************************************)
(* Helpers of the properties of the protocol.                              *)
(***************************************************************************)
IsExchange(i) == call[i].op = "exchange"
IsRefresh(i) == call[i].op = "refresh"
Done(i) == call[i].pc = "done"
\* the transport answered the call of attempt i with a response
Responded(i) == call[i].resp # Undefined /\ call[i].resp[1].ok
TransportFailed(i) == call[i].resp # Undefined /\ ~call[i].resp[1].ok
DataOf(i) == call[i].resp[1].data

\* the six fields the constructor copies are those of the data
FieldsMatch(token, data) ==
  /\ token.accessToken = Prop(data, "access_token")
  /\ token.expiresIn = Prop(data, "expires_in")
  /\ token.tokenType = Prop(data, "token_type")
  /\ token.scope = Prop(data, "scope")
  /\ token.refreshToken = Prop(data, "refresh_token")
  /\ token.patient = Prop(data, "patient")

(***************************************************************************)
(* C2.  In getAuthorizationToken the validator runs before any network     *)
(* call: when validation fails no request is issued and the validator's    *)
(* failure is the outcome; every request sent and every token returned     *)
(* belongs to a callback whose error is not "access_denied", whose code is *)
(* non-empty and whose state equals authData.state.                        *)
(***************************************************************************)
C2_ValidatorBeforeNetwork ==
  \A i \in Attempts : IsExchange(i) =>
    LET cb == call[i].cb[1]
        aData == authData[i][1]
        v == validateCallbackRequestQueryParams(aData, cb.code, cb.state, cb.error)
    IN  /\ v # "ok" =>
             /\ call[i].reqs = <<>>
             /\ call[i].resp = Undefined
             /\ Done(i)
             /\ call[i].outcome = Thrown(v)
        /\ (call[i].reqs # <<>> \/ call[i].outcome.kind = "token") =>
             /\ cb.error # Some("access_denied")
             /\ cb.code # Undefined /\ cb.code[1] # ""
             /\ cb.state = Some(aData.state)

C2_Witness ==
  \E i \in Attempts :
    /\ IsExchange(i) /\ Done(i)
    /\ call[i].cb[1] = Cb(Some("abc"), Some("WRONG"), Some("server_error"))
    /\ call[i].outcome = Thrown("CALLBACK_STATE_DOES_NOT_MATCH")
    /\ call[i].reqs = <<>>

(***************************************************************************)
(* C3.  After a valid callback and a transport response, the exchange      *)
(* returns an AuthorizationToken whose fields are those of the response    *)
(* body when there is a body, and fails with                               *)
(* AUTH_TOKEN_URL_RESPONSE_DATA_MISSING, returning no token, when the body *)
(* is empty or missing.                                                    *)
(***************************************************************************)
C3_ExchangeResult ==
  \A i \in Attempts : IsExchange(i) /\ Done(i) /\ Responded(i) =>
    /\ DataOf(i).kind = "object" =>
         /\ call[i].outcome.kind = "token"
         /\ call[i].outcome.ref \in 1..Len(heap)
         /\ FieldsMatch(heap[call[i].outcome.ref], DataOf(i))
         /\ heap[call[i].outcome.ref].accessToken = Some(DataOf(i).fields.access_token)
    /\ DataOf(i).kind \in {"null", "empty"} =>
         call[i].outcome = Thrown("AUTH_TOKEN_URL_RESPONSE_DATA_MISSING")

C3_Witness ==
  \E i \in Attempts :
    /\ IsExchange(i) /\ Done(i) /\ Responded(i)
    /\ DataOf(i) = EmptyData
    /\ call[i].outcome = Thrown("AUTH_TOKEN_URL_RESPONSE_DATA_MISSING")
    /\ heap = <<>>

(***************************************************************************)
(* C4.  For every token response the constructed token has expiresAt:      *)
(* when the response supplies expires_at, any number, 0 included,          *)
(* expiresAt is exactly that value; when it does not, expiresAt is the     *)
(* construction instant plus expires_in * 1000 milliseconds.               *)
(***************************************************************************)
C4_ExpiresAt ==
  \A i \in Attempts :
    Done(i) /\ Responded(i) /\ call[i].outcome.kind = "token"
      /\ DataOf(i).kind = "object" =>
    LET f == DataOf(i).fields
        token == heap[call[i].outcome.ref]
    IN  IF "expires_at" \in DOMAIN f
          THEN token.expiresAt = f.expires_at
          ELSE token.expiresAt = call[i].at + f.expires_in * 1000

(***************************************************************************)
(* C5.  Every AuthData of generateAuthData has codeChallenge =             *)
(* base64UrlEncode(sha256(verifier)); the pair comes from one generation   *)
(* step and is never regenerated; state comes from a draw of its own; and  *)
(* the same pair is what the authorize URL and the token post data carry.  *)
(***************************************************************************)
C5_Pair ==
  \A i \in Attempts : authData[i] # Undefined =>
    LET aData == authData[i][1]
    IN  /\ aData.codeChallenge = base64URLEncode(sha256(aData.verifier))
        /\ aData.verifier = base64URLEncode(drawn[i][1])
        /\ aData.state = base64URLEncode(drawn[i][2])
        /\ drawn[i][1] # drawn[i][2]
        /\ aData.state # aData.verifier
        /\ aData.state # aData.codeChallenge
        /\ url[i] # Undefined =>
             EndsWith(url[i][1], "&code_challenge=" \o aData.codeChallenge)
        /\ IsExchange(i) /\ call[i].reqs # <<>> =>
             /\ HasPair(call[i].reqs[1].data, "code_verifier", aData.verifier)
             /\ HasPair(call[i].reqs[1].data, "code_challenge", aData.codeChallenge)

C5_Keep == \A i \in Attempts : authData[i] # Undefined => authData'[i] = authData[i]

C5_PkcePair == []C5_Pair /\ [][C5_Keep]_vars

C5_Witness ==
  \E i \in Attempts :
    /\ url[i] # Undefined
    /\ IsExchange(i)
    /\ call[i].reqs # <<>>
    /\ authData[i][1].codeChallenge # authData[i][1].verifier

(***************************************************************************)
(* C6.  The verifier is sent only in the body of the exchange request: it  *)
(* occurs neither in an authorize URL nor in a refresh request (URL,       *)
(* query parameters, auth, body), and in an exchange request only as the   *)
(* value of code_verifier.                                                 *)
(***************************************************************************)
C6_InPairs(pairs, v) ==
  \E k \in 1..Len(pairs) : Contains(pairs[k][1], v) \/ Contains(pairs[k][2], v)

C6_InParams(params, v) ==
  \E k \in 1..Len(params) :
    Contains(params[k][1], v) \/ Contains(ToUSVString(params[k][2]), v)

C6_OutsideBody(req, v) ==
  \/ Contains(req.url, v)
  \/ C6_InPairs(req.headers, v)
  \/ C6_InParams(req.params, v)
  \/ req.auth # Undefined
       /\ (Contains(req.auth[1].username, v) \/ Contains(req.auth[1].password, v))

C6_VerifierOnlyInExchangeBody ==
  \A i \in Attempts : authData[i] # Undefined =>
    LET v == authData[i][1].verifier
    IN  /\ \A j \in Attempts : url[j] # Undefined => ~Contains(url[j][1], v)
        /\ \A j \in Attempts : \A k \in 1..Len(call[j].reqs) :
             LET req == call[j].reqs[k]
             IN  /\ ~C6_OutsideBody(req, v)
                 /\ IsRefresh(j) => ~C6_InPairs(req.data, v)
                 /\ \A n \in 1..Len(req.data) :
                      /\ ~Contains(req.data[n][1], v)
                      /\ Contains(req.data[n][2], v) =>
                           j = i /\ IsExchange(j) /\ req.data[n][1] = "code_verifier"
        /\ IsExchange(i) /\ call[i].reqs # <<>> =>
             HasPair(call[i].reqs[1].data, "code_verifier", v)

C6_Witness ==
  \E i \in Attempts :
    /\ url[i] # Undefined
    /\ IsRefresh(i)
    /\ call[i].reqs # <<>>
    /\ HasKey(call[i].reqs[1].params, "refresh_token")

C9_OneRequest ==
  \A i \in Attempts :
    /\ Len(call[i].reqs) <= 1
    /\ call[i].pc \in {"awaiting", "settled"} =>
         Len(call[i].reqs) = 1 /\ call[i].outcome = NoOutcome
    /\ Done(i) /\ TransportFailed(i) =>
         Len(call[i].reqs) = 1 /\ call[i].outcome = Thrown(TransportError)
    /\ Done(i) =>
         \/ /\ call[i].outcome.kind = "token"
            /\ call[i].outcome.error = ""
            /\ call[i].outcome.ref \in 1..Len(heap)
         \/ /\ call[i].outcome.kind = "error"
            /\ call[i].outcome.error # ""
            /\ call[i].outcome.ref = 0
    /\ call[i].pc = "settled" => ENABLED Resume(i)

C9_Ends ==
  \A i \in Attempts : call[i].pc = "settled" /\ call'[i] # call[i] =>
    call'[i].pc = "done" /\ call'[i].reqs = call[i].reqs

C9_SinglePass == []C9_OneRequest /\ [][C9_Ends]_vars

C9_Witness ==
  \E i \in Attempts :
    /\ IsExchange(i) /\ Done(i) /\ TransportFailed(i)
    /\ call[i].outcome = Thrown(TransportError)
    /\ Len(call[i].reqs) = 1
    /\ heap = <<>>

(***************************************************************************)
(* C10.  Concurrent attempts do not interfere: under every interleaving    *)
(* the outcome of a call and the request it sent depend only on its own    *)
(* arguments and its own transport response, a step of one attempt leaves  *)
(* the others as they were, and an attempt started after a failed one      *)
(* succeeds with fresh AuthData.                                           *)
(***************************************************************************)
\* the callback of attempt i, its state taken relative to its own AuthData
C10_Callback(i) ==
  LET cb == call[i].cb[1]
      own == cb.state = Some(authData[i][1].state)
  IN  [ code |-> cb.code, error |-> cb.error, own |-> own,
        state |-> IF own THEN Undefined ELSE cb.state ]

C10_SameArguments(i, j) ==
  /\ call[i].op = call[j].op
  /\ call[i].op # "none"
  /\ IsExchange(i) => C10_Callback(i) = C10_Callback(j)
  /\ IsRefresh(i) => call[i].snap = call[j].snap

C10_SameOutcome(i, j) ==
  /\ call[i].outcome.kind = call[j].outcome.kind
  /\ call[i].outcome.error = call[j].outcome.error
  /\ call[i].outcome.kind = "token" =>
       heap[call[i].outcome.ref] = heap[call[j].outcome.ref]

C10_OwnRequest(i) ==
  /\ IsExchange(i) /\ call[i].reqs # <<>> =>
       call[i].reqs = << Request(getAccessTokenUrl(bb),
                           URLSearchParams(generateTokenPostData(bb, authData[i][1],
                                             call[i].cb[1].code)),
                           Undefined, <<>>) >>
  /\ IsRefresh(i) =>
       /\ Len(call[i].reqs) = 1
       /\ HasPair(call[i].reqs[1].params, "refresh_token", call[i].snap[1].refreshToken)

C10_Independent ==
  /\ \A i \in Attempts : C10_OwnRequest(i)
  /\ \A i, j \in Attempts : C10_SameArguments(i, j) =>
       /\ (call[i].reqs = <<>>) <=> (call[j].reqs = <<>>)
       /\ Done(i) /\ Done(j) /\ call[i].resp = call[j].resp /\ call[i].at = call[j].at =>
            C10_SameOutcome(i, j)

C10_SomeFailed == \E j \in Attempts : Done(j) /\ call[j].outcome.kind = "error"

C10_ValidCallback(cb, aData) ==
  /\ cb.error # Some("access_denied")
  /\ ~FalsyStr(cb.code)
  /\ cb.state = Some(aData.state)

C10_Frame ==
  /\ \A i \in Attempts : call'[i] # call[i] =>
       \A j \in Attempts \ {i} :
         call'[j] = call[j] /\ authData'[j] = authData[j] /\ url'[j] = url[j]
  /\ \A k \in 1..Len(heap) : k \in 1..Len(heap') /\ heap'[k] = heap[k]
  \* after some attempt has failed, an exchange still starts and still ends
  \* with a token
  /\ \A i \in Attempts :
       /\ C10_SomeFailed /\ call[i].pc = "idle" /\ call'[i].pc # "idle"
       /\ C10_ValidCallback(call'[i].cb[1], authData[i][1])
       => call'[i].pc = "awaiting" /\ Len(call'[i].reqs) = 1
  /\ \A i \in Attempts :
       /\ C10_SomeFailed /\ IsExchange(i) /\ call[i].pc = "settled"
       /\ Responded(i) /\ DataOf(i).kind = "object" /\ call'[i].pc = "done"
       => call'[i].outcome.kind = "token"

C10_NoInterference == []C10_Independent /\ [][C10_Frame]_vars

\* attempt i failed at an instant before the one at which attempt j, with its
\* own AuthData, got its token
C10_Witness ==
  \E i, j \in Attempts :
    /\ i # j
    /\ IsExchange(i) /\ Done(i) /\ call[i].resp # Undefined
    /\ call[i].outcome.kind = "error"
    /\ IsExchange(j) /\ Done(j) /\ call[j].outcome.kind = "token"
    /\ call[i].at < call[j].at
    /\ authData[i] # authData[j]

=============================================================================
